---- MODULE Spec2Model ----
(***************************************************************************)
(* Model of the YouGile MCP core: AuthManager (src/core/auth.py) and       *)
(* YouGileClient (src/core/client.py) with its retry loop and its          *)
(* response-to-exception mapping (src/core/exceptions.py).                 *)
(*                                                                         *)
(* Python values are modelled as follows.                                  *)
(*   str            a sequence of text chunks (<<>> is the empty string);  *)
(*                  paths are spelled character by character so that       *)
(*                  startswith() is a real prefix test                     *)
(*   Optional[str]  a str, or the sentinel None                            *)
(*   JSON values    records tagged by t: "dict", "list", "str", "bool"     *)
(*   exceptions     records with kind, message, status_code, details       *)
(***************************************************************************)
EXTENDS Integers, Sequences, FiniteSets, TLC

VARIABLES
    yougile_max_retries,  \* settings.yougile_max_retries
    api_key,              \* AuthManager._api_key
    company_id,           \* AuthManager._company_id
    client,               \* YouGileClient._client: "None", "open" or "closed"
    leaked,               \* pools opened by __aenter__ that are open and that self._client no longer names
    pc,                   \* position of the logical request
    path,                 \* argument of request()
    headers,              \* local variable headers of request()
    full_url,             \* local variable full_url of request()
    attempt,              \* loop variable of request()
    attempts,             \* number of calls of self._client.request made by this request()
    delays,               \* the asyncio.sleep() arguments of this request(), in order
    lastOutcome,          \* how the latest attempt ended
    failKinds,            \* kinds of transport failure seen so far in this request()
    response,             \* the httpx.Response the latest attempt received
    result,               \* what request() returned or raised
    authCall,             \* the latest call of an AuthManager method by a caller, with its outcome
    lastSet,              \* arguments of the latest set_credentials that succeeded; none after a clear
    pkg_api_key,          \* _api_key of the AuthManager instance of core/__init__.py
    pkg_company_id,       \* _company_id of the AuthManager instance of core/__init__.py
    settings,             \* the credentials of config.settings
    inv,                  \* the tool invocations in progress, and main() at start-up
    issued,               \* the pair create_api_key_tool saved last, while it is the latest credential
    pager                 \* the locals of the pagination loop of get_tasks_by_date_tool

vars == <<yougile_max_retries, api_key, company_id, client, leaked, pc, path, headers,
          full_url, attempt, attempts, delays, lastOutcome, failKinds, response, result,
          authCall, lastSet, pkg_api_key, pkg_company_id, settings, inv, issued, pager>>

\* what the callers of the AuthManager methods observe
aux == <<authCall, lastSet>>

\* the state of the tool layer
toolVars == <<pkg_api_key, pkg_company_id, settings, inv, issued, pager>>

reqVars == <<pc, path, headers, full_url, attempt, attempts, delays,
             lastOutcome, failKinds, response, result>>

(***************************************************************************)
(* Bounds                                                                  *)
(***************************************************************************)
\* largest configured value of settings.yougile_max_retries that is explored
MaxRetriesBound == 3

\* largest number of pools one client is let to lose
MaxLeaked == 1

\* number of tool invocations that can be in progress at the same time
NumInvocations == 2

(***************************************************************************)
(* Python strings                                                          *)
(***************************************************************************)
None == <<"<None>">>

Truthy(s) == s # None /\ s # <<>>

IsSpace(c) == c = " "

RECURSIVE LStrip(_)
LStrip(s) == IF s # <<>> /\ IsSpace(Head(s)) THEN LStrip(Tail(s)) ELSE s

RECURSIVE RStrip(_)
RStrip(s) == IF s # <<>> /\ IsSpace(s[Len(s)]) THEN RStrip(SubSeq(s, 1, Len(s) - 1)) ELSE s

\* only the leading blanks removed
StripLeftOnly(s) == LStrip(s)

\* str.strip()
Strip(s) == RStrip(LStrip(s))

\* str.startswith(prefix)
StartsWith(s, prefix) ==
    /\ Len(s) >= Len(prefix)
    /\ SubSeq(s, 1, Len(prefix)) = prefix

Digits == <<"0", "1", "2", "3", "4", "5", "6", "7", "8", "9">>

\* str(n) for a natural number n
RECURSIVE IntToStr(_)
IntToStr(n) == IF n < 10 THEN <<Digits[n + 1]>>
               ELSE IntToStr(n \div 10) \o <<Digits[(n % 10) + 1]>>

(***************************************************************************)
(* JSON / Python values                                                    *)
(***************************************************************************)
PyStr(s) == [t |-> "str", s |-> s]
PyBool(b) == [t |-> "bool", b |-> b]
PyDict(d) == [t |-> "dict", d |-> d]
PyList(l) == [t |-> "list", l |-> l]
PyNone == [t |-> "NoneType"]

\* the empty dict {}
EmptyDict == PyDict(<<>>)

\* dict.get(key, default)
DictGet(v, key, default) == IF key \in DOMAIN v.d THEN v.d[key] ELSE default

\* details or {}
OrEmptyDict(v) == IF v = PyNone \/ v = EmptyDict THEN EmptyDict ELSE v

(***************************************************************************)
(* Exceptions (src/core/exceptions.py)                                     *)
(***************************************************************************)
\* status_code of an error constructed without one (status_code: int = None)
NoStatus == -1

Exc(kind, message, status_code, details) ==
    [kind |-> kind, message |-> message, status_code |-> status_code, details |-> details]

\* YouGileError.__init__: self.details = details or {}
YouGileError(message, status_code, details) ==
    Exc("YouGileError", message, status_code, OrEmptyDict(details))

AuthenticationError(message) == Exc("AuthenticationError", message, 401, EmptyDict)
AuthorizationError(message) == Exc("AuthorizationError", message, 403, EmptyDict)
RateLimitError(message) == Exc("RateLimitError", message, 429, EmptyDict)
ValidationError(message) == Exc("ValidationError", message, 400, EmptyDict)
NotFoundError(message) == Exc("NotFoundError", message, 404, EmptyDict)

\* the classes deriving from YouGileError, and YouGileError itself
TypedKinds == {"YouGileError", "AuthenticationError", "AuthorizationError",
               "RateLimitError", "ValidationError", "NotFoundError"}

\* exceptions of the interpreter and of the transport library that the code
\* raises or lets through; they carry no status_code and no details
Untyped(kind, message) == Exc(kind, message, NoStatus, EmptyDict)

\* outcome of a call: a returned value or a raised exception
Return(v) == [tag |-> "return", value |-> v]
Raise(e) == [tag |-> "raise", exc |-> e]
NoResult == [tag |-> "none"]

(***************************************************************************)
(* AuthManager (src/core/auth.py)                                          *)
(***************************************************************************)
BearerPrefix == <<"Bearer ">>
JsonType == <<"application/json">>

\* no AuthManager method called yet, no set_credentials succeeded yet
NoCall == [op |-> "none", args |-> <<>>, result |-> NoResult]
NoSet == <<>>

\* the bearer headers built without looking whether a token is stored
get_auth_headers_unchecked(k) ==
    Return([Authorization |-> BearerPrefix \o k,
            ContentType |-> JsonType,
            Accept |-> JsonType])

\* AuthManager.get_auth_headers, reading the token k
get_auth_headers(k) ==
    IF ~Truthy(k)
    THEN Raise(AuthenticationError(PyStr(<<"No API key configured">>)))
    ELSE Return([Authorization |-> BearerPrefix \o k,
                 ContentType |-> JsonType,
                 Accept |-> JsonType])

\* AuthManager.get_basic_headers
get_basic_headers ==
    Return([ContentType |-> JsonType, Accept |-> JsonType])

\* AuthManager.is_authenticated
is_authenticated == Truthy(api_key) /\ Truthy(company_id)

\* the checks of AuthManager.set_credentials
CredentialsValid(k, c) ==
    /\ Truthy(k) /\ Strip(k) # <<>>
    /\ Truthy(c) /\ Strip(c) # <<>>

(***************************************************************************)
(* Responses and YouGileClient._handle_response (src/core/client.py)       *)
(***************************************************************************)
\* result of response.json() when the body is not valid JSON (ValueError)
NotJson == [t |-> "ValueError"]

\* response bodies: the raw text and what json.loads makes of it
Bodies == {
    [text |-> <<>>,                                json |-> NotJson],
    [text |-> <<"Bad Gateway">>,                   json |-> NotJson],
    [text |-> <<"{\"error\":\"task not found\"}">>,
         json |-> PyDict([error |-> PyStr(<<"task not found">>)])],
    [text |-> <<"{\"id\":\"t1\"}">>,               json |-> PyDict([id |-> PyStr(<<"t1">>)])],
    [text |-> <<"{}">>,                            json |-> EmptyDict],
    [text |-> <<"[]">>,                            json |-> PyList(<<>>)],
    [text |-> <<"\"gone\"">>,                      json |-> PyStr(<<"gone">>)]
}

StatusCodes == {200, 201, 202, 204, 302, 400, 401, 403, 404, 429, 500, 503}

Responses == {[status_code |-> sc, text |-> b.text, json |-> b.json] : sc \in StatusCodes, b \in Bodies}

\* f"HTTP {response.status_code}"
HttpCode(resp) == <<"HTTP ">> \o IntToStr(resp.status_code)

\* error_data of _handle_response (lines 94-98)
ErrorData(resp) ==
    IF resp.json # NotJson
    THEN resp.json
    ELSE PyDict([error |-> PyStr(IF resp.text # <<>> THEN resp.text ELSE HttpCode(resp))])

\* the status dispatch of _handle_response (lines 102-111)
RaiseForStatus(resp, error_message, error_data) ==
    IF resp.status_code = 401 THEN Raise(AuthenticationError(error_message))
    ELSE IF resp.status_code = 403 THEN Raise(AuthorizationError(error_message))
    ELSE IF resp.status_code = 404 THEN Raise(NotFoundError(error_message))
    ELSE IF resp.status_code = 429 THEN Raise(RateLimitError(error_message))
    ELSE Raise(YouGileError(error_message, resp.status_code, error_data))

\* only 200 taken as a success
HandleResponseOnly200(resp) ==
    IF resp.status_code = 200
    THEN IF resp.json # NotJson
         THEN Return(resp.json)
         ELSE Return(PyDict([success |-> PyBool(TRUE), data |-> PyStr(resp.text)]))
    ELSE LET error_data == ErrorData(resp) IN
         IF error_data.t # "dict"
         THEN Raise(Untyped("AttributeError", PyStr(<<"object has no attribute 'get'">>)))
         ELSE RaiseForStatus(resp, DictGet(error_data, "error", PyStr(HttpCode(resp))), error_data)

\* YouGileClient._handle_response
HandleResponse(resp) ==
    IF resp.status_code = 200 \/ resp.status_code = 201
    THEN IF resp.json # NotJson
         THEN Return(resp.json)
         ELSE Return(PyDict([success |-> PyBool(TRUE), data |-> PyStr(resp.text)]))
    ELSE LET error_data == ErrorData(resp) IN
         IF error_data.t # "dict"
         THEN \* error_data.get on a list or a str: AttributeError
              Raise(Untyped("AttributeError", PyStr(<<"object has no attribute 'get'">>)))
         ELSE RaiseForStatus(resp, DictGet(error_data, "error", PyStr(HttpCode(resp))), error_data)

(***************************************************************************)
(* YouGileClient.request (src/core/client.py)                              *)
(***************************************************************************)
AuthPrefix == <<"/", "a", "u", "t", "h", "/">>
ApiPrefix == <<"/", "a", "p", "i", "-", "v", "2">>

\* the paths callers pass to request()
Paths == {
    <<"/", "u", "s", "e", "r", "s">>,
    ApiPrefix \o <<"/", "u", "s", "e", "r", "s">>,
    AuthPrefix \o <<"k", "e", "y", "s">>,
    ApiPrefix \o AuthPrefix \o <<"k", "e", "y", "s">>,
    <<"/", "a", "u", "t", "h">>
}

\* the test of line 53
IsAuthEndpoint(p) == StartsWith(p, AuthPrefix) \/ StartsWith(p, ApiPrefix \o AuthPrefix)

\* the bearer headers for every path
SelectHeadersAlwaysAuth(p, k) == get_auth_headers(k)

\* lines 53-56: the headers of a request to path p when the stored token is k
SelectHeaders(p, k) == IF IsAuthEndpoint(p) THEN get_basic_headers ELSE get_auth_headers(k)

\* the prefix prepended to every path
FullUrlAlwaysPrefixed(p) == ApiPrefix \o p

\* line 58
FullUrl(p) == IF ~StartsWith(p, ApiPrefix) THEN ApiPrefix \o p ELSE p

\* the range with one value too many
InRangeInclusive(i) == 0 <= i /\ i <= yougile_max_retries + 1

\* for attempt in range(settings.yougile_max_retries + 1): is i a value of the range
InRange(i) == 0 <= i /\ i < yougile_max_retries + 1

\* a linear delay in place of the exponential one
BackoffLinear(i) == 2 * i

\* asyncio.sleep(2 ** attempt)
Backoff(i) == 2 ^ i

\* texts of the httpx.NetworkError instances
NetworkErrorTexts == {<<>>, <<"All connection attempts failed">>}

NoResponse == [status_code |-> NoStatus, text |-> <<>>, json |-> NotJson]
NoHeaders == [unset |-> TRUE]

Terminal == {"Succeeded", "TerminalFailure"}

\* request() ends: it returns v or raises e
Finish(r) ==
    /\ result' = r
    /\ pc' = IF r.tag = "return" THEN "Succeeded" ELSE "TerminalFailure"

\* the head of the for loop, about to take the value i
LoopHead(i) ==
    IF InRange(i)
    THEN /\ attempt' = i
         /\ attempts' = attempts + 1
         /\ pc' = "Sending"
         /\ UNCHANGED result
    ELSE /\ Finish(Raise(YouGileError(PyStr(<<"Max retries exceeded">>), NoStatus, PyNone)))
         /\ UNCHANGED <<attempt, attempts>>

\* a caller calls request(method, p, ...)
StartRequest(p) ==
    /\ pc = "Idle"
    /\ pc' = "Building"
    /\ path' = p
    /\ UNCHANGED <<yougile_max_retries, aux, toolVars, api_key, company_id, client, leaked, headers, full_url,
                   attempt, attempts, delays, lastOutcome, failKinds, response, result>>

\* lines 49-60: the client check, the headers, the URL and the entry of the loop
Build ==
    /\ pc = "Building"
    /\ IF client = "None"
       THEN /\ Finish(Raise(Untyped("RuntimeError",
                    PyStr(<<"Client not initialized. Use 'async with' context manager.">>))))
            /\ UNCHANGED <<headers, full_url, attempt, attempts>>
       ELSE LET h == SelectHeaders(path, api_key) IN
            IF h.tag = "raise"
            THEN /\ Finish(h)
                 /\ UNCHANGED <<headers, full_url, attempt, attempts>>
            ELSE /\ headers' = h.value
                 /\ full_url' = FullUrl(path)
                 /\ LoopHead(0)
    /\ UNCHANGED <<yougile_max_retries, aux, toolVars, api_key, company_id, client, leaked, path,
                   delays, lastOutcome, failKinds, response>>

\* a response with status 429 or 503 retried like a transport failure
RespondRetrying(resp) ==
    /\ pc = "Sending"
    /\ client = "open"
    /\ response' = resp
    /\ lastOutcome' = "response"
    /\ IF resp.status_code \in {429, 503} /\ attempt < yougile_max_retries
       THEN /\ delays' = Append(delays, Backoff(attempt))
            /\ pc' = "RetryableFailure"
            /\ UNCHANGED result
       ELSE /\ Finish(HandleResponse(resp))
            /\ UNCHANGED delays
    /\ UNCHANGED <<yougile_max_retries, aux, toolVars, api_key, company_id, client, leaked, path, headers,
                   full_url, attempt, attempts, failKinds>>

\* lines 62-71: the attempt receives the response resp
Respond(resp) ==
    /\ pc = "Sending"
    /\ client = "open"
    /\ response' = resp
    /\ lastOutcome' = "response"
    /\ Finish(HandleResponse(resp))
    /\ UNCHANGED <<yougile_max_retries, aux, toolVars, api_key, company_id, client, leaked, path, headers,
                   full_url, attempt, attempts, delays, failKinds>>

\* the sleep started but not awaited: the next attempt starts at once
TransportFailureNoWait(kind, final) ==
    /\ pc = "Sending"
    /\ client = "open"
    /\ lastOutcome' = kind
    /\ failKinds' = failKinds \cup {kind}
    /\ IF attempt = yougile_max_retries
       THEN /\ Finish(Raise(final))
            /\ UNCHANGED <<delays, attempt, attempts>>
       ELSE /\ delays' = Append(delays, Backoff(attempt))
            /\ attempt' = attempt + 1
            /\ attempts' = attempts + 1
            /\ UNCHANGED <<pc, result>>
    /\ UNCHANGED <<yougile_max_retries, aux, toolVars, api_key, company_id, client, leaked, path,
                   headers, full_url, response>>

\* the last attempt recognised one attempt too late
TransportFailureLateCheck(kind, final) ==
    /\ pc = "Sending"
    /\ client = "open"
    /\ lastOutcome' = kind
    /\ failKinds' = failKinds \cup {kind}
    /\ IF attempt = yougile_max_retries + 1
       THEN /\ Finish(Raise(final))
            /\ UNCHANGED delays
       ELSE /\ delays' = Append(delays, Backoff(attempt))
            /\ pc' = "RetryableFailure"
            /\ UNCHANGED result
    /\ UNCHANGED <<yougile_max_retries, aux, toolVars, api_key, company_id, client, leaked, path,
                   headers, full_url, attempt, attempts, response>>

\* a failed attempt retried at once, without counting it
TransportFailureUncounted(kind, final) ==
    /\ pc = "Sending"
    /\ client = "open"
    /\ lastOutcome' = kind
    /\ failKinds' = failKinds \cup {kind}
    /\ UNCHANGED <<yougile_max_retries, aux, toolVars, api_key, company_id, client, leaked, pc, path, headers,
                   full_url, attempt, attempts, delays, response, result>>

\* lines 73-81: the attempt raised httpx.TimeoutException or httpx.NetworkError
TransportFailure(kind, final) ==
    /\ pc = "Sending"
    /\ client = "open"
    /\ lastOutcome' = kind
    /\ failKinds' = failKinds \cup {kind}
    /\ IF attempt = yougile_max_retries
       THEN /\ Finish(Raise(final))
            /\ UNCHANGED delays
       ELSE /\ delays' = Append(delays, Backoff(attempt))
            /\ pc' = "RetryableFailure"
            /\ UNCHANGED result
    /\ UNCHANGED <<yougile_max_retries, aux, toolVars, api_key, company_id, client, leaked, path, headers,
                   full_url, attempt, attempts, response>>

\* the last timeout reported with the message of the fallback raise
TimeoutFallbackMessage ==
    TransportFailure("timeout", YouGileError(PyStr(<<"Max retries exceeded">>), NoStatus, PyNone))

\* lines 73-76
Timeout == TransportFailure("timeout", YouGileError(PyStr(<<"Request timeout">>), NoStatus, PyNone))

\* lines 78-81
NetworkError ==
    \E e \in NetworkErrorTexts :
        TransportFailure("network", YouGileError(PyStr(<<"Network error: ">> \o e), NoStatus, PyNone))

\* lines 61-81: the attempt raised an exception that neither except clause
\* names (httpx.RemoteProtocolError, httpx.TooManyRedirects, ...)
OtherException ==
    /\ pc = "Sending"
    /\ client = "open"
    /\ lastOutcome' = "other"
    /\ Finish(Raise(Untyped("RemoteProtocolError",
                            PyStr(<<"Server disconnected without sending a response.">>))))
    /\ UNCHANGED <<yougile_max_retries, aux, toolVars, api_key, company_id, client, leaked, path, headers,
                   full_url, attempt, attempts, delays, failKinds, response>>

\* lines 62-69 on a client whose pool __aexit__ closed: httpx refuses to send
SendOnClosed ==
    /\ pc = "Sending"
    /\ client = "closed"
    /\ lastOutcome' = "other"
    /\ Finish(Raise(Untyped("RuntimeError",
                            PyStr(<<"Cannot send a request, as the client has been closed.">>))))
    /\ UNCHANGED <<yougile_max_retries, aux, toolVars, api_key, company_id, client, leaked, path, headers,
                   full_url, attempt, attempts, delays, failKinds, response>>

\* the headers read again from the AuthManager before each retry
BackoffDoneRebuildingHeaders ==
    /\ pc = "RetryableFailure"
    /\ LoopHead(attempt + 1)
    /\ headers' = IF SelectHeaders(path, api_key).tag = "return"
                  THEN SelectHeaders(path, api_key).value
                  ELSE headers
    /\ UNCHANGED <<yougile_max_retries, aux, toolVars, api_key, company_id, client, leaked, path,
                   full_url, delays, lastOutcome, failKinds, response>>

\* lines 76 and 81 return: the sleep is over and the loop takes its next value
BackoffDone ==
    /\ pc = "RetryableFailure"
    /\ LoopHead(attempt + 1)
    /\ UNCHANGED <<yougile_max_retries, aux, toolVars, api_key, company_id, client, leaked, path, headers,
                   full_url, delays, lastOutcome, failKinds, response>>

\* the caller has the outcome; the locals of the call are gone
Done ==
    /\ pc \in Terminal
    /\ pc' = "Idle"
    /\ path' = <<>>
    /\ headers' = NoHeaders
    /\ full_url' = <<>>
    /\ attempt' = 0
    /\ attempts' = 0
    /\ delays' = <<>>
    /\ lastOutcome' = "none"
    /\ failKinds' = {}
    /\ response' = NoResponse
    /\ result' = NoResult
    /\ UNCHANGED <<yougile_max_retries, aux, toolVars, api_key, company_id, client, leaked>>

\* YouGileClient.__aenter__
Enter ==
    /\ pc = "Idle"
    /\ leaked < MaxLeaked \/ client # "open"
    /\ client' = "open"
    /\ leaked' = IF client = "open" THEN leaked + 1 ELSE leaked
    /\ UNCHANGED <<yougile_max_retries, aux, toolVars, api_key, company_id>>
    /\ UNCHANGED reqVars

\* YouGileClient.__aexit__
Exit ==
    /\ pc = "Idle"
    /\ client = "open"
    /\ client' = "closed"
    /\ UNCHANGED <<yougile_max_retries, aux, toolVars, api_key, company_id, leaked>>
    /\ UNCHANGED reqVars

(***************************************************************************)
(* The credential is written by other tasks at the suspension points       *)
(***************************************************************************)
KeyA == <<"k", "1">>
KeyB == <<"k", "2">>
CompanyA == <<"c", "1">>

\* arguments passed to set_credentials
KeyArgs == {None, <<>>, <<" ">>, KeyA, <<" ">> \o KeyB \o <<" ">>}
CompanyArgs == {<<" ">>, CompanyA \o <<" ">>}

\* the token written before the company id is validated
StoreCredentialsEarly(k, c) ==
    IF Truthy(k) /\ Strip(k) # <<>>
    THEN /\ api_key' = Strip(k)
         /\ IF Truthy(c) /\ Strip(c) # <<>>
            THEN company_id' = Strip(c)
            ELSE UNCHANGED company_id
    ELSE UNCHANGED <<api_key, company_id>>

\* the company id of a valid pair not written
StoreCredentialsTokenOnly(k, c) ==
    IF CredentialsValid(k, c)
    THEN /\ api_key' = Strip(k)
         /\ UNCHANGED company_id
    ELSE UNCHANGED <<api_key, company_id>>

\* what set_credentials(k, c) does to the two fields (lines 29-35)
StoreCredentials(k, c) ==
    IF CredentialsValid(k, c)
    THEN /\ api_key' = Strip(k)
         /\ company_id' = Strip(c)
    ELSE UNCHANGED <<api_key, company_id>>

\* what set_credentials(k, c) returns or raises (lines 29-32)
SetCredentialsOutcome(k, c) ==
    IF ~Truthy(k) \/ Strip(k) = <<>>
    THEN Raise(ValidationError(PyStr(<<"API key cannot be empty">>)))
    ELSE IF ~Truthy(c) \/ Strip(c) = <<>>
    THEN Raise(ValidationError(PyStr(<<"Company ID cannot be empty">>)))
    ELSE Return(PyNone)

\* AuthManager.set_credentials(k, c), called by another task
set_credentials(k, c) ==
    /\ pc # "Building"
    /\ StoreCredentials(k, c)
    /\ UNCHANGED <<yougile_max_retries, aux, toolVars, client, leaked>>
    /\ UNCHANGED reqVars

\* AuthManager.clear_credentials
clear_credentials ==
    /\ pc # "Building"
    /\ api_key' = None
    /\ company_id' = None
    /\ UNCHANGED <<yougile_max_retries, aux, toolVars, client, leaked>>
    /\ UNCHANGED reqVars

(***************************************************************************)
(* State of the tool layer (src/yougile_mcp/tools, src/server.py)          *)
(***************************************************************************)
CompanyB == <<"c", "2">>

Invocations == 1 .. NumInvocations

\* a slot in which no tool has been invoked yet
IdleInvocation ==
    [tool |-> "none", pc |-> "idle", pool |-> FALSE, arg |-> None,
     sent |-> NoHeaders, result |-> NoResult]

\* config.settings: configured stands for yougile_email, yougile_password and
\* yougile_company_id all being set, and yougile_company_id is then CompanyA
NoSettings == [configured |-> FALSE, yougile_api_key |-> None]
SettingsValues == {[configured |-> c, yougile_api_key |-> k] : c \in BOOLEAN, k \in {None, KeyA}}

\* get_tasks_by_date_tool is not running
IdlePager ==
    [pc |-> "idle", fetch_limit |-> 0, all_tasks |-> 0, offset |-> 0,
     current_limit |-> 0, batch |-> 0, requests |-> 0, honest |-> TRUE]

\* no tool layer around the client: both module-level managers as constructed
NoTools ==
    /\ pkg_api_key = None
    /\ pkg_company_id = None
    /\ settings = NoSettings
    /\ inv = [i \in Invocations |-> IdleInvocation]
    /\ issued = NoSet
    /\ pager = IdlePager

(***************************************************************************)
(* Specification                                                           *)
(***************************************************************************)
\* YouGileClient.__init__ with AuthManager.__init__, and the settings
Init ==
    /\ yougile_max_retries \in -1 .. MaxRetriesBound
    /\ api_key \in {None, KeyA}
    /\ company_id \in {None, CompanyA}
    /\ client = "None"
    /\ leaked = 0
    /\ authCall = NoCall
    /\ lastSet = NoSet
    /\ pc = "Idle"
    /\ path = <<>>
    /\ headers = NoHeaders
    /\ full_url = <<>>
    /\ attempt = 0
    /\ attempts = 0
    /\ delays = <<>>
    /\ lastOutcome = "none"
    /\ failKinds = {}
    /\ response = NoResponse
    /\ result = NoResult
    /\ NoTools

Next ==
    \/ \E p \in Paths : StartRequest(p)
    \/ Build
    \/ \E resp \in Responses : Respond(resp)
    \/ Timeout
    \/ NetworkError
    \/ OtherException
    \/ SendOnClosed
    \/ BackoffDone
    \/ Done
    \/ Enter
    \/ Exit
    \/ \E k \in KeyArgs, c \in CompanyArgs : set_credentials(k, c)
    \/ clear_credentials

Spec == Init /\ [][Next]_vars

(***************************************************************************)
(* The AuthManager alone: its methods called in any order by callers that  *)
(* see what each call returns or raises                                    *)
(***************************************************************************)
\* settings.yougile_max_retries as shipped
DefaultMaxRetries == 3

\* arguments of AuthManager.__init__
CtorKeys == {None, <<>>, KeyA}
CtorCompanies == {None, CompanyA}

\* arguments of the set_credentials calls
AuthKeyArgs == KeyArgs \cup {KeyB}
AuthCompanyArgs == CompanyArgs \cup {None, <<>>, CompanyB}

\* a caller calls set_credentials(k, c)
SetCredentialsCall(k, c) ==
    /\ StoreCredentials(k, c)
    /\ authCall' = [op |-> "set_credentials", args |-> <<k, c>>,
                    result |-> SetCredentialsOutcome(k, c)]
    /\ lastSet' = IF CredentialsValid(k, c) THEN <<k, c>> ELSE lastSet
    /\ UNCHANGED <<yougile_max_retries, client, leaked, toolVars>>
    /\ UNCHANGED reqVars

\* clear_credentials() that resets the token only
ClearCredentialsCallTokenOnly ==
    /\ api_key' = None
    /\ UNCHANGED company_id
    /\ authCall' = [op |-> "clear_credentials", args |-> <<>>, result |-> Return(PyNone)]
    /\ lastSet' = NoSet
    /\ UNCHANGED <<yougile_max_retries, client, leaked, toolVars>>
    /\ UNCHANGED reqVars

\* a caller calls clear_credentials()
ClearCredentialsCall ==
    /\ api_key' = None
    /\ company_id' = None
    /\ authCall' = [op |-> "clear_credentials", args |-> <<>>, result |-> Return(PyNone)]
    /\ lastSet' = NoSet
    /\ UNCHANGED <<yougile_max_retries, client, leaked, toolVars>>
    /\ UNCHANGED reqVars

\* a caller calls get_auth_headers()
GetAuthHeadersCall ==
    /\ authCall' = [op |-> "get_auth_headers", args |-> <<>>,
                    result |-> get_auth_headers(api_key)]
    /\ UNCHANGED <<yougile_max_retries, api_key, company_id, lastSet, client, leaked, toolVars>>
    /\ UNCHANGED reqVars

\* a caller calls is_authenticated()
IsAuthenticatedCall ==
    /\ authCall' = [op |-> "is_authenticated", args |-> <<>>,
                    result |-> Return(PyBool(is_authenticated))]
    /\ UNCHANGED <<yougile_max_retries, api_key, company_id, lastSet, client, leaked, toolVars>>
    /\ UNCHANGED reqVars

\* AuthManager.__init__(api_key, company_id); no client is in use
AuthInit ==
    /\ api_key \in CtorKeys
    /\ company_id \in CtorCompanies
    /\ authCall = NoCall
    /\ lastSet = NoSet
    /\ yougile_max_retries = DefaultMaxRetries
    /\ client = "None"
    /\ leaked = 0
    /\ pc = "Idle"
    /\ path = <<>>
    /\ headers = NoHeaders
    /\ full_url = <<>>
    /\ attempt = 0
    /\ attempts = 0
    /\ delays = <<>>
    /\ lastOutcome = "none"
    /\ failKinds = {}
    /\ response = NoResponse
    /\ result = NoResult
    /\ NoTools

AuthNext ==
    \/ \E k \in AuthKeyArgs, c \in AuthCompanyArgs : SetCredentialsCall(k, c)
    \/ ClearCredentialsCall
    \/ GetAuthHeadersCall
    \/ IsAuthenticatedCall

AuthSpec == AuthInit /\ [][AuthNext]_vars

(***************************************************************************)
(* The tools (src/yougile_mcp/tools) and initialize_auth (src/server.py).  *)
(* Each invocation opens a YouGileClient of its own; its request() is one  *)
(* step from the headers to the outcome. The ctx.info/ctx.error logging    *)
(* calls are left out.                                                     *)
(***************************************************************************)
AuthKeysPath == AuthPrefix \o <<"k", "e", "y", "s">>
UsersPath == <<"/", "u", "s", "e", "r", "s">>
TaskListPath == <<"/", "t", "a", "s", "k", "-", "l", "i", "s", "t">>
ProjectsPath == <<"/", "p", "r", "o", "j", "e", "c", "t", "s">>

\* what the server answers to a tool's request
ToolResponses == {
    [status_code |-> 201, text |-> <<"{\"key\":\"k2\"}">>,
         json |-> PyDict([key |-> PyStr(KeyB)])],
    [status_code |-> 200, text |-> <<"{}">>, json |-> EmptyDict],
    [status_code |-> 401, text |-> <<"{\"error\":\"Unauthorized\"}">>,
         json |-> PyDict([error |-> PyStr(<<"Unauthorized">>)])]
}

\* how request() ends once its headers are built
ToolRequestOutcomes ==
    {HandleResponse(r) : r \in ToolResponses}
        \cup {Raise(YouGileError(PyStr(<<"Request timeout">>), NoStatus, PyNone))}

\* api/auth.py create_api_key: response.get("key", "")
KeyOf(v) == DictGet(v, "key", PyStr(<<>>)).s

\* api/tasks.py get_task_list, api/projects.py get_projects: response.get("content", [])
ContentOf(v) == DictGet(v, "content", PyList(<<>>))

\* the values uuid.UUID() accepts
WellFormedUuids == {CompanyA, CompanyB}

\* utils/validation.py validate_uuid(value, "company_id")
validate_uuid(value) ==
    IF ~Truthy(value)
    THEN Raise(ValidationError(PyStr(<<"company_id is required">>)))
    ELSE IF value \notin WellFormedUuids
    THEN Raise(ValidationError(PyStr(<<"company_id must be a valid UUID">>)))
    ELSE Return(Strip(value))

\* company_id arguments of create_api_key_tool
ToolCompanyArgs == {CompanyB, <<"c">>}

\* main() has run initialize_auth to its end and the server takes invocations
Serving == \A j \in Invocations : inv[j].tool = "main" => inv[j].pc = "done"

CanStart(i) == Serving /\ inv[i].pc \in {"idle", "done"}

\* the invocation has left its client scope with outcome r
Ended(tool, r) ==
    [tool |-> tool, pc |-> "done", pool |-> FALSE, arg |-> None,
     sent |-> NoHeaders, result |-> r]

\* async with YouGileClient(manager holding token k) as client: client.request(p)
\* up to the first attempt; get_auth_headers may raise and end the scope
InScope(tool, nextpc, p, k, arg) ==
    LET h == SelectHeaders(p, k) IN
    IF h.tag = "raise"
    THEN Ended(tool, h)
    ELSE [tool |-> tool, pc |-> nextpc, pool |-> TRUE, arg |-> arg,
          sent |-> h, result |-> NoResult]

\* number of connection pools open in the process
OpenPools == Cardinality({i \in Invocations : inv[i].pool})

\* core.auth_manager.set_credentials(k, c): the instance of core/__init__.py,
\* the one auth_tools.py imports
StorePkgCredentials(k, c) ==
    IF CredentialsValid(k, c)
    THEN /\ pkg_api_key' = Strip(k)
         /\ pkg_company_id' = Strip(c)
    ELSE UNCHANGED <<pkg_api_key, pkg_company_id>>

\* what no tool touches
ToolFrame ==
    /\ UNCHANGED <<yougile_max_retries, client, leaked, aux, settings, pager>>
    /\ UNCHANGED reqVars

\* create_api_key_tool(login, password, c) up to its request
CreateApiKeyStart(i, c) ==
    /\ CanStart(i)
    /\ LET company_uuid == validate_uuid(c) IN
       inv' = [inv EXCEPT ![i] =
                 IF company_uuid.tag = "raise"
                 THEN Ended("create_api_key_tool", company_uuid)
                 ELSE InScope("create_api_key_tool", "requesting", AuthKeysPath, None,
                              company_uuid.value)]
    /\ UNCHANGED <<api_key, company_id, pkg_api_key, pkg_company_id, issued>>
    /\ ToolFrame

\* create_api_key_tool from the outcome r of its request to its end
CreateApiKeyFinish(i, r) ==
    /\ inv[i].tool = "create_api_key_tool"
    /\ inv[i].pc = "requesting"
    /\ LET key_value == IF r.tag = "return" THEN KeyOf(r.value) ELSE <<>>
           company_uuid == inv[i].arg
           saving == r.tag = "return" /\ Truthy(key_value)
           outcome ==
               IF r.tag = "raise" THEN r
               ELSE IF ~Truthy(key_value)
               THEN Raise(Untyped("ValueError", PyStr(<<"No API key returned from server">>)))
               ELSE IF ~CredentialsValid(key_value, company_uuid)
               THEN SetCredentialsOutcome(key_value, company_uuid)
               ELSE Return(PyDict([key |-> PyStr(key_value),
                                   company_id |-> PyStr(company_uuid)]))
       IN /\ IF saving
             THEN StorePkgCredentials(key_value, company_uuid)
             ELSE UNCHANGED <<pkg_api_key, pkg_company_id>>
          /\ issued' = IF saving /\ CredentialsValid(key_value, company_uuid)
                       THEN <<key_value, company_uuid>>
                       ELSE issued
          /\ inv' = [inv EXCEPT ![i] = Ended("create_api_key_tool", outcome)]
    /\ UNCHANGED <<api_key, company_id>>
    /\ ToolFrame

\* list_task_summaries_tool up to its request
TaskListStart(i) ==
    /\ CanStart(i)
    /\ inv' = [inv EXCEPT ![i] =
                 InScope("list_task_summaries_tool", "requesting", TaskListPath, api_key, None)]
    /\ UNCHANGED <<api_key, company_id, pkg_api_key, pkg_company_id, issued>>
    /\ ToolFrame

\* initialize_auth returned ok: main() goes on to serve; ensure_authenticated
\* raises, or returns and list_projects_tool enters its client scope
AfterInitializeAuth(tool, ok, k) ==
    IF tool = "main"
    THEN Ended("main", Return(PyBool(ok)))
    ELSE IF ~ok
    THEN Ended(tool, Raise(Untyped("Exception",
             PyStr(<<"Failed to initialize YouGile authentication. Check credentials.">>))))
    ELSE InScope(tool, "requesting", ProjectsPath, k, None)

\* initialize_auth up to its first request
BeginInitializeAuth(i, tool) ==
    IF ~settings.configured
    THEN /\ inv' = [inv EXCEPT ![i] = AfterInitializeAuth(tool, FALSE, api_key)]
         /\ UNCHANGED <<api_key, company_id, issued>>
    ELSE IF Truthy(settings.yougile_api_key)
            /\ CredentialsValid(settings.yougile_api_key, CompanyA)
    THEN /\ StoreCredentials(settings.yougile_api_key, CompanyA)
         /\ issued' = NoSet
         /\ inv' = [inv EXCEPT ![i] =
                      InScope(tool, "testing_key", UsersPath,
                              Strip(settings.yougile_api_key), None)]
    ELSE /\ inv' = [inv EXCEPT ![i] = InScope(tool, "creating_key", AuthKeysPath, None, None)]
         /\ UNCHANGED <<api_key, company_id, issued>>

\* main(): asyncio.run(initialize_auth()) before mcp.run()
MainInitializeAuth(i) ==
    /\ inv[i].tool = "main"
    /\ inv[i].pc = "initialize_auth"
    /\ BeginInitializeAuth(i, "main")
    /\ UNCHANGED <<pkg_api_key, pkg_company_id>>
    /\ ToolFrame

\* list_projects_tool: ensure_authenticated, then up to its request
ProjectsStart(i) ==
    /\ CanStart(i)
    /\ IF is_authenticated
       THEN /\ inv' = [inv EXCEPT ![i] =
                         InScope("list_projects_tool", "requesting", ProjectsPath, api_key, None)]
            /\ UNCHANGED <<api_key, company_id, issued>>
       ELSE BeginInitializeAuth(i, "list_projects_tool")
    /\ UNCHANGED <<pkg_api_key, pkg_company_id>>
    /\ ToolFrame

\* a new key created whether or not the configured key passed its test
InitializeAuthTestedAlwaysCreates(i, r) ==
    /\ inv[i].pc = "testing_key"
    /\ inv' = [inv EXCEPT ![i] =
                 [InScope(inv[i].tool, "creating_key", AuthKeysPath, None, None)
                     EXCEPT !.result = r]]
    /\ UNCHANGED <<api_key, company_id, pkg_api_key, pkg_company_id, issued>>
    /\ ToolFrame

\* initialize_auth: the test of the configured key ended with r; the except
\* clause of line 554 holds r while the new key is created
InitializeAuthTested(i, r) ==
    /\ inv[i].pc = "testing_key"
    /\ inv' = [inv EXCEPT ![i] =
                 IF r.tag = "return"
                 THEN AfterInitializeAuth(inv[i].tool, TRUE, api_key)
                 ELSE [InScope(inv[i].tool, "creating_key", AuthKeysPath, None, None)
                          EXCEPT !.result = r]]
    /\ UNCHANGED <<api_key, company_id, pkg_api_key, pkg_company_id, issued>>
    /\ ToolFrame

\* initialize_auth: the creation of a new key ended with r
InitializeAuthCreated(i, r) ==
    /\ inv[i].pc = "creating_key"
    /\ LET new_key == IF r.tag = "return" THEN KeyOf(r.value) ELSE <<>>
           ok == r.tag = "return" /\ CredentialsValid(new_key, CompanyA)
       IN IF ok
          THEN /\ StoreCredentials(new_key, CompanyA)
               /\ issued' = NoSet
               /\ inv' = [inv EXCEPT ![i] =
                            AfterInitializeAuth(inv[i].tool, TRUE, Strip(new_key))]
          ELSE /\ inv' = [inv EXCEPT ![i] = AfterInitializeAuth(inv[i].tool, FALSE, api_key)]
               /\ UNCHANGED <<api_key, company_id, issued>>
    /\ UNCHANGED <<pkg_api_key, pkg_company_id>>
    /\ ToolFrame

\* list_task_summaries_tool, list_projects_tool from the outcome r of the
\* request to the end
ToolRequestFinish(i, r) ==
    /\ inv[i].tool \in {"list_task_summaries_tool", "list_projects_tool"}
    /\ inv[i].pc = "requesting"
    /\ inv' = [inv EXCEPT ![i] =
                 Ended(inv[i].tool,
                       IF r.tag = "return" THEN Return(ContentOf(r.value)) ELSE r)]
    /\ UNCHANGED <<api_key, company_id, pkg_api_key, pkg_company_id, issued>>
    /\ ToolFrame

\* the process as main() is entered: both managers empty, settings loaded
ToolInit ==
    /\ settings \in SettingsValues
    /\ inv = [i \in Invocations |->
                IF i = 1 /\ settings.configured
                THEN [IdleInvocation EXCEPT !.tool = "main", !.pc = "initialize_auth"]
                ELSE IdleInvocation]
    /\ api_key = None
    /\ company_id = None
    /\ pkg_api_key = None
    /\ pkg_company_id = None
    /\ issued = NoSet
    /\ pager = IdlePager
    /\ authCall = NoCall
    /\ lastSet = NoSet
    /\ yougile_max_retries = DefaultMaxRetries
    /\ client = "None"
    /\ leaked = 0
    /\ pc = "Idle"
    /\ path = <<>>
    /\ headers = NoHeaders
    /\ full_url = <<>>
    /\ attempt = 0
    /\ attempts = 0
    /\ delays = <<>>
    /\ lastOutcome = "none"
    /\ failKinds = {}
    /\ response = NoResponse
    /\ result = NoResult

ToolNext ==
    \/ \E i \in Invocations : MainInitializeAuth(i)
    \/ \E i \in Invocations, c \in ToolCompanyArgs : CreateApiKeyStart(i, c)
    \/ \E i \in Invocations, r \in ToolRequestOutcomes : CreateApiKeyFinish(i, r)
    \/ \E i \in Invocations : TaskListStart(i)
    \/ \E i \in Invocations : ProjectsStart(i)
    \/ \E i \in Invocations, r \in ToolRequestOutcomes : InitializeAuthTested(i, r)
    \/ \E i \in Invocations, r \in ToolRequestOutcomes : InitializeAuthCreated(i, r)
    \/ \E i \in Invocations, r \in ToolRequestOutcomes : ToolRequestFinish(i, r)

ToolSpec == ToolInit /\ [][ToolNext]_vars

(***************************************************************************)
(* The pagination loop of get_tasks_by_date_tool                            *)
(* (src/yougile_mcp/tools/task_tools.py). all_tasks and batch are the       *)
(* lengths of the lists of those names.                                     *)
(***************************************************************************)
\* batch_size = 1000
batch_size == 1000

\* fetch_limit when assigned_to is not given
FetchAll == 5000

\* the values of the argument limit
PageLimits == {0, 1, batch_size - 1, batch_size, batch_size + 1, 2 * batch_size + 1}

Min(a, b) == IF a < b THEN a ELSE b

\* the while test and, when it passes, the request of the next page
PageLoop(rec) ==
    IF rec.all_tasks < rec.fetch_limit
    THEN [rec EXCEPT !.pc = "requesting",
                     !.current_limit = Min(batch_size, rec.fetch_limit - rec.all_tasks),
                     !.requests = @ + 1]
    ELSE [rec EXCEPT !.pc = "done"]

\* what the pagination loop leaves alone
PageFrame ==
    /\ UNCHANGED <<yougile_max_retries, client, leaked, aux, api_key, company_id>>
    /\ UNCHANGED <<pkg_api_key, pkg_company_id, settings, inv, issued>>
    /\ UNCHANGED reqVars

\* get_tasks_by_date_tool(limit = limit, assigned_to given or not) up to its
\* first page request
GetTasksByDateStart(limit, assigned) ==
    /\ pager.pc = "idle"
    /\ pager' = PageLoop([IdlePager EXCEPT !.fetch_limit = IF assigned THEN limit ELSE FetchAll])
    /\ PageFrame

\* the page is extended but offset stays where it was
PageReceivedNoAdvance(n) ==
    /\ pager.pc = "requesting"
    /\ LET got == [pager EXCEPT !.batch = n, !.honest = @ /\ n <= pager.current_limit] IN
       pager' = IF n = 0
                THEN [got EXCEPT !.pc = "done"]
                ELSE LET ext == [got EXCEPT !.all_tasks = @ + n] IN
                     IF n < pager.current_limit
                     THEN [ext EXCEPT !.pc = "done"]
                     ELSE PageLoop(ext)
    /\ PageFrame

\* tasks.get_tasks returned a page of n tasks: the rest of the loop body and
\* the next while test
PageReceived(n) ==
    /\ pager.pc = "requesting"
    /\ LET got == [pager EXCEPT !.batch = n, !.honest = @ /\ n <= pager.current_limit] IN
       pager' = IF n = 0
                THEN [got EXCEPT !.pc = "done"]
                ELSE LET ext == [got EXCEPT !.all_tasks = @ + n] IN
                     IF n < pager.current_limit
                     THEN [ext EXCEPT !.pc = "done"]
                     ELSE PageLoop([ext EXCEPT !.offset = @ + n])
    /\ PageFrame

\* tasks.get_tasks raised: the tool raises
PageFailed ==
    /\ pager.pc = "requesting"
    /\ pager' = [pager EXCEPT !.pc = "failed"]
    /\ PageFrame

\* the tool has returned or raised; its locals are gone
GetTasksByDateEnd ==
    /\ pager.pc \in {"done", "failed"}
    /\ pager' = IdlePager
    /\ PageFrame

\* a process with a stored credential and no other tool running
PageInit ==
    /\ api_key = KeyA
    /\ company_id = CompanyA
    /\ NoTools
    /\ authCall = NoCall
    /\ lastSet = NoSet
    /\ yougile_max_retries = DefaultMaxRetries
    /\ client = "None"
    /\ leaked = 0
    /\ pc = "Idle"
    /\ path = <<>>
    /\ headers = NoHeaders
    /\ full_url = <<>>
    /\ attempt = 0
    /\ attempts = 0
    /\ delays = <<>>
    /\ lastOutcome = "none"
    /\ failKinds = {}
    /\ response = NoResponse
    /\ result = NoResult

\* the server may return one task more than it was asked for
PageNext ==
    \/ \E limit \in PageLimits, assigned \in BOOLEAN : GetTasksByDateStart(limit, assigned)
    \/ \E n \in 0 .. pager.current_limit + 1 : PageReceived(n)
    \/ PageFailed
    \/ GetTasksByDateEnd

\* every page request ends: it returns a page or raises
PageSpec ==
    /\ PageInit
    /\ [][PageNext]_vars
    /\ WF_vars((\E n \in 0 .. pager.current_limit + 1 : PageReceived(n)) \/ PageFailed)

\* every started step of a request completes: the attempt ends, the sleep ends
FairSpec ==
    /\ Spec
    /\ WF_vars(Build)
    /\ WF_vars((\E resp \in Responses : Respond(resp)) \/ Timeout \/ NetworkError
               \/ OtherException \/ SendOnClosed)
    /\ WF_vars(BackoffDone)

TypeOK ==
    /\ yougile_max_retries \in -1 .. MaxRetriesBound
    /\ client \in {"None", "open", "closed"}
    /\ leaked \in 0 .. MaxLeaked
    /\ pc \in {"Idle", "Building", "Sending", "RetryableFailure"} \cup Terminal
    /\ attempt \in Nat
    /\ attempts \in Nat
    /\ lastOutcome \in {"none", "response", "timeout", "network", "other"}
    /\ failKinds \subseteq {"timeout", "network"}
    /\ result.tag \in {"none", "return", "raise"}

(***************************************************************************)
(* Properties                                                              *)
(***************************************************************************)
\* a request whose latest attempt got an HTTP response and which has ended
Responded == pc \in Terminal /\ lastOutcome = "response"

\* C1: one call of request() makes at most max_retries + 1 attempts, whatever
\* mix of responses, timeouts and network errors the attempts end in.
C1_AttemptsBounded == attempts <= yougile_max_retries + 1

\* the default configuration, four attempts made, failures of both kinds among them
C1_Witness ==
    /\ yougile_max_retries = 3
    /\ attempts = 4
    /\ failKinds = {"timeout", "network"}

\* C2: a further attempt is started only after a timeout or a network error;
\* an attempt that receives an HTTP response of any status ends the request,
\* and neither an attempt nor a delay follows it.
C2_RetryOnlyOnTransportFailure ==
    [][/\ (attempts' > attempts /\ attempts >= 1) => lastOutcome \in {"timeout", "network"}
       /\ (pc = "Sending" /\ lastOutcome' = "response" /\ pc' # "Sending") =>
              /\ pc' \in Terminal
              /\ attempts' = attempts
              /\ delays' = delays
       /\ (lastOutcome = "response" /\ pc \in Terminal) => pc' \in Terminal \cup {"Idle"}
      ]_vars

\* a 503 received on the second attempt ended the request although retries were left
C2_Witness ==
    /\ Responded
    /\ response.status_code = 503
    /\ attempts = 2
    /\ yougile_max_retries = 3
    /\ Len(delays) = 1

\* C3: the i-th failed attempt (0-indexed) that is not the last one is followed
\* by a delay of exactly 2^i, so the delays of a request are 1, 2, 4, ... in
\* order; two timeouts and then a success return the decoded body after the
\* delays 1 and 2.
C3_ExponentialBackoff ==
    /\ \A i \in 1 .. Len(delays) : delays[i] = 2 ^ (i - 1)
    /\ pc = "Sending" => Len(delays) = attempt
    /\ pc = "RetryableFailure" => Len(delays) = attempt + 1 /\ attempt < yougile_max_retries
    /\ (pc \in Terminal /\ attempts >= 1) => Len(delays) = attempts - 1
    /\ (pc = "Succeeded" /\ attempts = 3 /\ response.json # NotJson) =>
           /\ delays = <<1, 2>>
           /\ result = Return(response.json)

\* two timeouts, then a 200 with a decodable body
C3_Witness ==
    /\ pc = "Succeeded"
    /\ attempts = 3
    /\ failKinds = {"timeout"}
    /\ response.status_code = 200
    /\ response.json # NotJson
    /\ delays = <<1, 2>>

\* C4: when the attempt with index max_retries fails with a timeout or a
\* network error, request() raises YouGileError without status code, with the
\* message "Request timeout" after a timeout and "Network error: ..." after a
\* network error, whatever the earlier failures were; no delay and no attempt
\* follows.
C4_ExhaustedRaisesGeneric ==
    (pc \in Terminal /\ lastOutcome \in {"timeout", "network"}) =>
        /\ pc = "TerminalFailure"
        /\ attempt = yougile_max_retries
        /\ attempts = yougile_max_retries + 1
        /\ Len(delays) = yougile_max_retries
        /\ result.tag = "raise"
        /\ result.exc.kind = "YouGileError"
        /\ result.exc.status_code = NoStatus
        /\ lastOutcome = "timeout" => result.exc.message = PyStr(<<"Request timeout">>)
        /\ lastOutcome = "network" =>
               /\ result.exc.message.t = "str"
               /\ StartsWith(result.exc.message.s, <<"Network error: ">>)

\* the fourth attempt timed out after a network error on an earlier attempt
C4_Witness ==
    /\ pc = "TerminalFailure"
    /\ lastOutcome = "timeout"
    /\ "network" \in failKinds
    /\ yougile_max_retries = 3
    /\ attempts = 4

\* C5: every call of request() ends, by a return or by a raise, provided every
\* attempt and every delay completes.
C5_RequestTerminates == (pc = "Building") ~> (pc \in Terminal)

\* a request that ended after all its attempts failed
C5_Witness ==
    /\ pc \in Terminal
    /\ yougile_max_retries = 3
    /\ Len(delays) = 3
    /\ lastOutcome = "network"

\* C6: request() ends by returning a payload or by raising YouGileError or a
\* subclass of it: no other exception reaches the caller.
C6_OnlyTypedErrors ==
    /\ pc = "Succeeded" => result.tag = "return"
    /\ pc = "TerminalFailure" => result.tag = "raise" /\ result.exc.kind \in TypedKinds

\* the error kind the status code stands for
C7_KindOf(sc) ==
    CASE sc = 401 -> "AuthenticationError"
      [] sc = 403 -> "AuthorizationError"
      [] sc = 404 -> "NotFoundError"
      [] sc = 429 -> "RateLimitError"
      [] OTHER -> "YouGileError"

\* C7: the kind of the error raised for a response with a non-2xx status is
\* decided by the status code alone, the error carries that status code, and the generic
\* error carries the error payload as its details.
C7_KindFromStatus ==
    (Responded /\ response.status_code \notin 200 .. 299) =>
        /\ result.tag = "raise"
        /\ result.exc.kind = C7_KindOf(response.status_code)
        /\ result.exc.status_code = response.status_code
        /\ result.exc.kind = "YouGileError" => result.exc.details = ErrorData(response)

\* C8: a 200 or 201 response returns the decoded body unchanged when the body
\* decodes, and {success: true, data: <raw text>} when it does not.
C8_SuccessPayload ==
    (Responded /\ response.status_code \in {200, 201}) =>
        /\ pc = "Succeeded"
        /\ response.json # NotJson => result = Return(response.json)
        /\ response.json = NotJson =>
               result = Return([t |-> "dict",
                                d |-> [success |-> [t |-> "bool", b |-> TRUE],
                                       data |-> [t |-> "str", s |-> response.text]]])

\* a 201 whose body is not JSON was returned as the fallback value
C8_Witness ==
    /\ pc = "Succeeded"
    /\ response.status_code = 201
    /\ response.json = NotJson
    /\ response.text # <<>>
    /\ result.tag = "return"

\* the message the raised error is to carry for the response resp
C9_Message(resp) ==
    IF resp.json # NotJson /\ resp.json.t = "dict" /\ "error" \in DOMAIN resp.json.d
    THEN resp.json.d["error"]
    ELSE IF resp.json = NotJson /\ resp.text # <<>>
    THEN [t |-> "str", s |-> resp.text]
    ELSE [t |-> "str", s |-> <<"HTTP ">> \o IntToStr(resp.status_code)]

\* C9: the message of the error raised for a response other than 200/201 is
\* the error field of the decoded body, else the raw text of an undecodable
\* non-empty body, else "HTTP <code>".
C9_ErrorMessage ==
    (Responded /\ response.status_code \notin {200, 201}) =>
        /\ result.tag = "raise"
        /\ result.exc.message = C9_Message(response)

\* the prefixes of the login and key endpoints
C10_Bootstrap(p) ==
    \/ StartsWith(p, <<"/", "a", "u", "t", "h", "/">>)
    \/ StartsWith(p, <<"/", "a", "p", "i", "-", "v", "2", "/", "a", "u", "t", "h", "/">>)

\* C10: request() chooses its headers by the path alone: a path with the
\* auth prefix gets the basic JSON headers, without Authorization, whether or
\* not a token is stored; every other path is sent with Bearer <stored token>.
C10_HeadersByPath ==
    [][(pc = "Building" /\ pc' # "Building" /\ client # "None") =>
          IF C10_Bootstrap(path)
          THEN headers' = [ContentType |-> <<"application/json">>, Accept |-> <<"application/json">>]
          ELSE pc' = "Sending" =>
                   /\ Truthy(api_key)
                   /\ headers' = [Authorization |-> <<"Bearer ">> \o api_key,
                                  ContentType |-> <<"application/json">>,
                                  Accept |-> <<"application/json">>]
      ]_vars

\* a request to /api-v2/auth/keys is in flight, built while no token was stored
C10_Witness ==
    /\ pc = "Sending"
    /\ path = <<"/", "a", "p", "i", "-", "v", "2", "/", "a", "u", "t", "h", "/", "k", "e", "y", "s">>
    /\ api_key = None
    /\ attempts = 1
    /\ "Authorization" \notin DOMAIN headers

\* C11: with no token stored, a request to a path outside the auth prefix on
\* an open client raises AuthenticationError before the retry loop: no attempt
\* is made and no delay is slept.
C11_NoTokenNoAttempt ==
    [][/\ (/\ pc = "Building" /\ pc' # "Building"
           /\ client = "open"
           /\ api_key \in {None, <<>>}
           /\ ~C10_Bootstrap(path)) =>
              /\ pc' = "TerminalFailure"
              /\ result'.tag = "raise"
              /\ result'.exc.kind = "AuthenticationError"
              /\ result'.exc.status_code = 401
              /\ attempts' = 0
              /\ delays' = <<>>
       /\ pc = "TerminalFailure" => attempts' <= attempts /\ Len(delays') <= Len(delays)
      ]_vars

\* get("/users") on an open client without token ended in AuthenticationError
C11_Witness ==
    /\ pc = "TerminalFailure"
    /\ client = "open"
    /\ path = <<"/", "u", "s", "e", "r", "s">>
    /\ api_key = None
    /\ result.exc.kind = "AuthenticationError"
    /\ attempts = 0
    /\ delays = <<>>

\* C16: the pool opened by entering the scope of a client is closed on every
\* exit, and no sequence of enter, request and exit operations leaves a pool
\* open that is never closed afterwards.
C16_NoPoolLeaked == leaked = 0

C19_Fallback ==
    /\ pc = "TerminalFailure"
    /\ result.tag = "raise"
    /\ result.exc.message = [t |-> "str", s |-> <<"Max retries exceeded">>]

\* C19 as stated: the raise after the retry loop is unreachable for every
\* configured max_retries and every sequence of attempt outcomes.
C19_FallbackUnreachable == ~C19_Fallback

\* C19 amended: the raise after the retry loop is unreachable for every
\* configured max_retries >= 0; with a negative max_retries the loop body
\* never runs and request() ends in that raise without any attempt.
C19_FallbackOnlyWhenNegative ==
    /\ yougile_max_retries >= 0 => ~C19_Fallback
    /\ C19_Fallback => yougile_max_retries < 0 /\ attempts = 0 /\ delays = <<>>

\* with max_retries = 1 the loop was left by the raise inside it, on its last value
C19_Witness ==
    /\ yougile_max_retries = 1
    /\ pc = "TerminalFailure"
    /\ attempt = 1
    /\ lastOutcome = "timeout"
    /\ result.exc.message = [t |-> "str", s |-> <<"Request timeout">>]

\* x is None, empty or blank
IsBlank(x) == x = None \/ \A i \in 1 .. Len(x) : x[i] = " "

\* t is x without its leading and trailing blanks
IsTrimOf(t, x) ==
    /\ t # <<>>
    /\ t[1] # " "
    /\ t[Len(t)] # " "
    /\ \E i \in 1 .. Len(x) :
          /\ i + Len(t) - 1 <= Len(x)
          /\ SubSeq(x, i, i + Len(t) - 1) = t
          /\ \A j \in 1 .. Len(x) : (j < i \/ j > i + Len(t) - 1) => x[j] = " "

\* C12: set_credentials raises ValidationError when an argument is empty or
\* blank and then leaves both fields as they were; otherwise it stores both
\* trimmed values.
C12_SetCredentials ==
    [][\A k \in AuthKeyArgs, c \in AuthCompanyArgs :
          SetCredentialsCall(k, c) =>
              IF IsBlank(k) \/ IsBlank(c)
              THEN /\ authCall'.result.tag = "raise"
                   /\ authCall'.result.exc.kind = "ValidationError"
                   /\ api_key' = api_key
                   /\ company_id' = company_id
              ELSE /\ authCall'.result.tag = "return"
                   /\ IsTrimOf(api_key', k)
                   /\ IsTrimOf(company_id', c)
      ]_vars

\* a set_credentials call was refused while a credential was stored, and the
\* credential is still the one stored before
C12_Witness ==
    /\ authCall.op = "set_credentials"
    /\ authCall.result.tag = "raise"
    /\ authCall.result.exc.message = [t |-> "str", s |-> <<"Company ID cannot be empty">>]
    /\ authCall.args = <<KeyB, <<" ">> >>
    /\ lastSet = <<KeyA, CompanyB>>
    /\ api_key = KeyA
    /\ company_id = CompanyB

\* C13: in every state of an AuthManager, after construction with any
\* arguments and any sequence of calls, the token and the company id are both
\* set or both unset, and no bearer header is built from a manager that holds
\* only one of them.
C13_BothOrNeither ==
    /\ Truthy(api_key) <=> Truthy(company_id)
    /\ (authCall.op = "get_auth_headers" /\ authCall.result.tag = "return") =>
           Truthy(company_id)

\* C14: no reader sees the token of one credential with the company id of
\* another: after a successful set_credentials both fields are those of that
\* one call, and the readers report that pair.
C14_PairFromOneCall ==
    lastSet # NoSet =>
        /\ IsTrimOf(api_key, lastSet[1])
        /\ IsTrimOf(company_id, lastSet[2])
        /\ authCall.op = "get_auth_headers" =>
               /\ authCall.result.tag = "return"
               /\ IsTrimOf(SubSeq(authCall.result.value.Authorization, 2,
                                  Len(authCall.result.value.Authorization)), lastSet[1])
        /\ authCall.op = "is_authenticated" => authCall.result = Return([t |-> "bool", b |-> TRUE])

\* a reader ran after the credential k1/c1-or-c2 had been replaced by k2/c2
C14_Witness ==
    /\ lastSet = <<KeyB, CompanyB>>
    /\ authCall.op = "is_authenticated"
    /\ api_key = KeyB
    /\ company_id = CompanyB

\* C20: get_auth_headers raises AuthenticationError exactly when no token is
\* stored; otherwise Authorization is "Bearer " and the stored token, which is
\* the trimmed token of the latest successful set_credentials.
C20_AuthHeaders ==
    authCall.op = "get_auth_headers" =>
        /\ authCall.result.tag = "raise" <=> api_key \in {None, <<>>}
        /\ authCall.result.tag = "raise" => authCall.result.exc.kind = "AuthenticationError"
        /\ authCall.result.tag = "return" =>
               /\ authCall.result.value.Authorization = <<"Bearer ">> \o api_key
               /\ lastSet # NoSet => IsTrimOf(api_key, lastSet[1])

\* the headers were asked for after set_credentials(" k2 ", "c1 ")
C20_Witness ==
    /\ authCall.op = "get_auth_headers"
    /\ lastSet = <<(<<" ">> \o KeyB \o <<" ">>), (CompanyA \o <<" ">>)>>
    /\ authCall.result.tag = "return"
    /\ authCall.result.value.Authorization = <<"Bearer ", "k", "2">>

\* C15: there is one process-wide credential: once create_api_key_tool has
\* saved a newly issued key with set_credentials, and while no later
\* credential replaced it, the AuthManager every authenticated tool and
\* ensure_authenticated consult reports is_authenticated() = True and builds
\* the Bearer header from that key
C15_OneCredential ==
    issued # NoSet =>
        /\ is_authenticated
        /\ get_auth_headers(api_key) = get_auth_headers_unchecked(Strip(issued[1]))

\* C17: the logical requests in flight are multiplexed over one shared
\* connection pool: the number of pools open at the same time does not grow
\* with the number of tool invocations in progress
C17_OneSharedPool == OpenPools <= 1

\* C21: path normalisation is idempotent: the URL request() builds is left
\* unchanged by normalising it again, and a bare path p and its prefixed form
\* "/api-v2" + p get the same URL and the same headers.
C21_NormalisationIdempotent ==
    [][(pc = "Building" /\ pc' = "Sending") =>
          LET prefixed == <<"/", "a", "p", "i", "-", "v", "2">> \o path IN
          /\ FullUrl(full_url') = full_url'
          /\ ~StartsWith(path, <<"/", "a", "p", "i", "-", "v", "2">>) =>
                 /\ full_url' = prefixed
                 /\ FullUrl(prefixed) = full_url'
                 /\ SelectHeaders(prefixed, api_key) = Return(headers')
      ]_vars

\* the bare path /auth/keys was sent to /api-v2/auth/keys with the basic headers
C21_Witness ==
    /\ pc = "Sending"
    /\ path = <<"/", "a", "u", "t", "h", "/", "k", "e", "y", "s">>
    /\ full_url = <<"/", "a", "p", "i", "-", "v", "2", "/", "a", "u", "t", "h", "/", "k", "e", "y", "s">>
    /\ "Authorization" \notin DOMAIN headers
    /\ attempts = 1

\* C22: clear_credentials() leaves the manager unset whatever it held before:
\* both fields None, is_authenticated() False and get_auth_headers() raising;
\* the state after a call does not depend on the state before it, so a second
\* call in a row changes nothing.
C22_ClearLeavesUnset ==
    authCall.op = "clear_credentials" =>
        /\ api_key = None
        /\ company_id = None
        /\ ~is_authenticated
        /\ get_auth_headers(api_key).tag = "raise"
        /\ get_auth_headers(api_key).exc.kind = "AuthenticationError"

\* clear_credentials() has just returned
C22_Witness ==
    /\ authCall.op = "clear_credentials"
    /\ authCall.result = Return(PyNone)
    /\ api_key = None
    /\ company_id = None
    /\ lastSet = NoSet

\* C23: request() returns a payload only for status 200 or 201; a response
\* with any other status (202, 204, 3xx, 4xx, 5xx) ends the request in a
\* raised error that carries that status code.
C23_OnlyOkReturns ==
    /\ (Responded /\ result.tag = "return") => response.status_code \in {200, 201}
    /\ (Responded /\ response.status_code \notin {200, 201}) =>
           /\ result.tag = "raise"
           /\ result.exc.status_code = response.status_code

\* C24: authentication is ensured for each tool call: an authenticated tool
\* invoked while no credential is stored attempts the initialisation before
\* its first request, so no invocation of such a tool ends in the
\* "No API key configured" error of get_auth_headers().
C24_AuthEnsured ==
    \A i \in Invocations :
        (/\ inv[i].tool \in {"list_task_summaries_tool", "list_projects_tool"}
         /\ inv[i].pc = "done") =>
            inv[i].result # Raise(AuthenticationError(PyStr(<<"No API key configured">>)))

\* C25: initialize_auth() requests a new key only when no API key is
\* configured or the configured key failed its test call; when the configured
\* key passes the test it returns True with that key as the process-wide
\* credential and creates no key; when email, password or company id is
\* missing it returns False with no network call and the credential untouched.
C25_InitializeAuth ==
    [][\A i \in Invocations :
          /\ (inv[i].pc # "creating_key" /\ inv'[i].pc = "creating_key") =>
                 \/ /\ inv[i].pc # "testing_key"
                    /\ ~Truthy(settings.yougile_api_key)
                 \/ /\ inv[i].pc = "testing_key"
                    /\ inv'[i].result.tag = "raise"
          /\ (inv[i].pc = "testing_key" /\ inv'[i].pc # "creating_key") =>
                 /\ api_key' = Strip(settings.yougile_api_key)
                 /\ company_id' = CompanyA
                 /\ inv[i].tool = "main" => inv'[i].result = Return(PyBool(TRUE))
                 /\ inv[i].tool # "main" => inv'[i].pc = "requesting"
          /\ (/\ ~settings.configured
              /\ inv[i].pc \in {"idle", "done"}
              /\ inv'[i] # inv[i]
              /\ inv'[i].tool = "list_projects_tool"
              /\ ~is_authenticated) =>
                 /\ inv'[i].pc = "done"
                 /\ inv'[i].result.tag = "raise"
                 /\ inv'[i].result.exc.kind = "Exception"
                 /\ ~inv'[i].pool
                 /\ api_key' = api_key
                 /\ company_id' = company_id
      ]_vars

\* main() got True from initialize_auth() after the configured key passed its
\* test: that key is the credential
C25_Witness ==
    \E i \in Invocations :
        /\ inv[i].tool = "main"
        /\ inv[i].pc = "done"
        /\ inv[i].result = Return(PyBool(TRUE))
        /\ api_key = KeyA
        /\ settings.yougile_api_key = KeyA

\* C26: the pagination loop of get_tasks_by_date_tool terminates; while every
\* page holds at most the number of tasks asked for, it makes at most
\* ceil(fetch_limit / 1000) page requests, each with an offset equal to the
\* number of tasks accumulated so far, goes on only after a full page and
\* stops at the first empty or short page or once fetch_limit tasks are
\* accumulated.
C26_PaginationTerminates ==
    /\ [][pager'.honest =>
            /\ 1000 * pager'.requests <= pager'.fetch_limit + 999
            /\ pager'.pc = "requesting" =>
                   /\ pager'.offset = pager'.all_tasks
                   /\ pager'.all_tasks < pager'.fetch_limit
                   /\ pager'.current_limit >= 1
                   /\ pager'.current_limit <= 1000
                   /\ pager'.all_tasks + pager'.current_limit <= pager'.fetch_limit
            /\ (pager.pc = "requesting" /\ pager'.pc = "requesting") =>
                   /\ pager'.batch = pager.current_limit
                   /\ pager'.requests = pager.requests + 1
            /\ (pager.pc = "requesting" /\ pager'.pc = "done") =>
                   \/ pager'.batch = 0
                   \/ pager'.batch < pager.current_limit
                   \/ pager'.all_tasks = pager'.fetch_limit
            /\ pager'.pc = "done" => pager'.all_tasks <= pager'.fetch_limit
       ]_vars
    /\ (pager.pc = "requesting") ~> (pager.pc \in {"done", "failed"})

\* 2001 tasks asked for and found: three page requests, the last one for 1 task
C26_Witness ==
    /\ pager.pc = "done"
    /\ pager.honest
    /\ pager.fetch_limit = 2001
    /\ pager.all_tasks = 2001
    /\ pager.requests = 3
    /\ pager.offset = 2001
    /\ pager.batch = 1

\* C27: request() on a client whose scope is not active, never entered or
\* already exited, raises the "Client not initialized" error before any
\* header is built and without any attempt.
C27_InactiveRejected ==
    (client # "open" /\ pc \notin {"Idle", "Building"}) =>
        /\ pc = "TerminalFailure"
        /\ result.tag = "raise"
        /\ result.exc.kind = "RuntimeError"
        /\ result.exc.message =
               PyStr(<<"Client not initialized. Use 'async with' context manager.">>)
        /\ headers = NoHeaders
        /\ attempts = 0

\* C28: the headers of a logical request are computed once, before its first
\* attempt: while the request is in an attempt or in a backoff delay, no step,
\* of the request or of a task replacing or clearing the credential, changes
\* them, so every retry carries the Authorization value of the first attempt.
C28_HeadersOncePerRequest ==
    [][(pc \in {"Sending", "RetryableFailure"} /\ pc' \in {"Sending", "RetryableFailure"}) =>
          /\ headers' = headers
          /\ headers # NoHeaders
      ]_vars

\* the second attempt of a request built with token k1 is in flight after the
\* credential was replaced by k2
C28_Witness ==
    /\ pc = "Sending"
    /\ attempts = 2
    /\ "Authorization" \in DOMAIN headers
    /\ headers.Authorization = <<"Bearer ">> \o <<"k", "1">>
    /\ api_key = <<"k", "2">>

\* initialize_auth() of the invocation returned False: main() got False, or
\* ensure_authenticated raised its "Failed to initialize" exception
C29_ReturnedFalse(rec) ==
    /\ rec.pc = "done"
    /\ \/ rec.tool = "main" /\ rec.result = [tag |-> "return", value |-> [t |-> "bool", b |-> FALSE]]
       \/ /\ rec.tool = "list_projects_tool"
          /\ rec.result.tag = "raise"
          /\ rec.result.exc.kind = "Exception"

\* C29: whenever initialize_auth() returns False the process-wide credential
\* is left not authenticated; a configured key that failed its test call is
\* not left installed.
C29_FailedInitLeavesUnset ==
    [][\A i \in Invocations :
          (inv[i].pc # "done" /\ C29_ReturnedFalse(inv'[i])) =>
              /\ ~(Truthy(api_key') /\ Truthy(company_id'))
              /\ Truthy(settings.yougile_api_key) => api_key' # settings.yougile_api_key
      ]_vars

\* C30: when several invocations run ensure_authenticated() while no
\* credential is stored, at most one key-creation request is issued to the
\* remote API.
C30_OneKeyCreation ==
    Cardinality({i \in Invocations : inv[i].pc = "creating_key"}) <= 1

====
